---- MODULE Spec2Model ----
(***************************************************************************)
(* A model of the surface point-sampling engine of mesh-heightmap:         *)
(*   lib/large_model_handler.py  LargeModelHandler (chunked streaming,     *)
(*                               bounding box, CPU and GPU samplers)       *)
(*   lib/point_sampler.py        PointSampler (thread-pool CPU sampler,    *)
(*                               one-shot GPU sampler)                     *)
(*   main.py                     argument validation and the outer GPU     *)
(*                               session                                   *)
(* A point is abstracted to the face it was drawn from; the library        *)
(* primitives that draw points (trimesh's sample functions, torch's        *)
(* multinomial) either raise or deliver exactly the number of points they  *)
(* were asked for, and any face of the sub-mesh they are given may be      *)
(* drawn.                                                                  *)
(***************************************************************************)
EXTENDS Integers, Sequences, FiniteSets, TLC

\* ------------------------------------------------------------------ bounds
MaxVerts == 3
MaxFaces == 3
MaxSamples == 4
MaxThreads == 2

\* Coordinates a vertex may take on each axis.
Coords == {0, 1}

\* chunk_size arguments: negative, zero, every size up to the mesh, and sizes
\* exceeding it by 7.
MaxLen == IF MaxVerts >= MaxFaces THEN MaxVerts ELSE MaxFaces

ChunkSizes == (-1 .. MaxLen) \cup {n + 7 : n \in 1 .. MaxLen}

VARIABLES
    \* LargeModelHandler fields
    constructed, chunk_size, mesh, total_vertices, total_faces, loaded,
    \* the call in progress
    pc, op, outcome, result,
    \* generator position and the chunks yielded so far
    i, chunks,
    \* calculate_bounding_box locals
    min_coords, max_coords,
    \* call arguments and environment
    num_samples, use_gpu, cuda_available, num_threads, large_model,
    \* sampler locals
    samples_per_face, remaining_samples, samples, gpu_faces, face_probs,
    \* observable effects
    warnings, cpu_calls, gpu_calls, sample_calls, allocs, sessions, acquired,
    \* ThreadPoolExecutor
    tasks, collected, max_workers

handlerVars == <<constructed, chunk_size, mesh, total_vertices, total_faces, loaded>>
callVars == <<pc, op, outcome, result>>
streamVars == <<i, chunks>>
bboxVars == <<min_coords, max_coords>>
argVars == <<num_samples, use_gpu, cuda_available, num_threads, large_model>>
sampVars == <<samples_per_face, remaining_samples, samples, gpu_faces, face_probs>>
effectVars == <<warnings, cpu_calls, gpu_calls, sample_calls, allocs, sessions, acquired>>
poolVars == <<tasks, collected, max_workers>>

vars == <<handlerVars, callVars, streamVars, bboxVars, argVars, sampVars,
          effectVars, poolVars>>

\* ------------------------------------------------------------- arithmetic
Minimum(a, b) == IF a <= b THEN a ELSE b

\* Python's floor division and modulo for a positive divisor.
FloorDiv(a, b) == a \div b

Mod(a, b) == a % b

\* Extended reals: <<-1, 0>> is -inf, <<0, v>> is the finite v, <<1, 0>> is +inf.
Fin(v) == <<0, v>>

PosInf == <<1, 0>>

NegInf == <<-1, 0>>

LeqE(a, b) == \/ a[1] < b[1]
              \/ a[1] = b[1] /\ (a[1] # 0 \/ a[2] <= b[2])

\* np.minimum / np.maximum on one component.
NpMinimum(a, b) == IF LeqE(a, b) THEN a ELSE b

NpMaximum(a, b) == IF LeqE(a, b) THEN b ELSE a

Axes == 1 .. 3

\* np.min(chunk, axis=0) / np.max(chunk, axis=0) of a non-empty chunk.
NpMin(chunk) ==
    [a \in Axes |->
        Fin(CHOOSE m \in {chunk[k][a] : k \in DOMAIN chunk} :
                \A k \in DOMAIN chunk : m <= chunk[k][a])]

NpMax(chunk) ==
    [a \in Axes |->
        Fin(CHOOSE m \in {chunk[k][a] : k \in DOMAIN chunk} :
                \A k \in DOMAIN chunk : m >= chunk[k][a])]

\* The fold of lines 84-85.
FoldMinLast(acc, chunk) == NpMin(chunk)

FoldMin(acc, chunk) == [a \in Axes |-> NpMinimum(acc[a], NpMin(chunk)[a])]

FoldMax(acc, chunk) == [a \in Axes |-> NpMaximum(acc[a], NpMax(chunk)[a])]

\* ------------------------------------------------------------- streaming
\* range(0, stop, step) still has the element at position pos (step # 0).
RangeHas(pos, stop, step) == IF step > 0 THEN pos < stop ELSE pos > stop

\* seq[lo : hi] for 0 <= lo <= hi (0-based, hi exclusive, clamped to the length).
SliceShort(seq, lo, hi) == SubSeq(seq, lo + 1, Minimum(hi, Len(seq)) - 1)

Slice(seq, lo, hi) == SubSeq(seq, lo + 1, Minimum(hi, Len(seq)))

\* The sequence a stream operation walks, and its length field.
StreamSeq == IF op \in {"stream_vertices", "bbox"} THEN mesh.vertices ELSE mesh.faces

StreamTotal == IF op \in {"stream_vertices", "bbox"} THEN total_vertices ELSE total_faces

NextChunk == Slice(StreamSeq, i, i + chunk_size)

HasChunk == chunk_size # 0 /\ RangeHas(i, StreamTotal, chunk_size)

Exhausted == chunk_size # 0 /\ ~RangeHas(i, StreamTotal, chunk_size)

\* ------------------------------------------------------------------ values
NoResult == [kind |-> "none"]

NoTasks == <<>>

InfMin == [a \in Axes |-> PosInf]

InfMax == [a \in Axes |-> NegInf]

Points == Coords \X Coords \X Coords

\* Vertex k of the meshes used for sampling.
CanonVertex(k) == <<k, 0 - k, k % 2>>

CanonFaces(n) == [k \in 1 .. n |-> k - 1]

\* Meshes handed to the samplers: a mesh with faces has MaxVerts vertices, a
\* mesh without faces has any number of vertices.
SampleMeshes ==
    {[vertices |-> [k \in 1 .. nv |-> CanonVertex(k)], faces |-> CanonFaces(nf)] :
        <<nv, nf>> \in {p \in (0 .. MaxVerts) \X (0 .. MaxFaces) :
                            IF p[2] = 0 THEN TRUE ELSE p[1] = MaxVerts}}

\* Meshes for the bounding box: every vertex sequence over Coords.
BoundsMeshes ==
    UNION {{[vertices |-> vs, faces |-> CanonFaces(IF n = 0 THEN 0 ELSE 1)] :
                vs \in [1 .. n -> Points]} : n \in 0 .. MaxVerts}

\* ----------------------------------------------------------------- Init
Init ==
    /\ constructed = FALSE
    /\ chunk_size = 0
    /\ mesh = [vertices |-> <<>>, faces |-> <<>>]
    /\ total_vertices = 0
    /\ total_faces = 0
    /\ loaded = FALSE
    /\ pc = "idle"
    /\ op = "none"
    /\ outcome = "none"
    /\ result = NoResult
    /\ i = 0
    /\ chunks = <<>>
    /\ min_coords = InfMin
    /\ max_coords = InfMax
    /\ num_samples = 0
    /\ use_gpu = FALSE
    /\ cuda_available = FALSE
    /\ num_threads = 0
    /\ large_model = FALSE
    /\ samples_per_face = 0
    /\ remaining_samples = 0
    /\ samples = <<>>
    /\ gpu_faces = <<>>
    /\ face_probs = {}
    /\ warnings = 0
    /\ cpu_calls = 0
    /\ gpu_calls = 0
    /\ sample_calls = 0
    /\ allocs = 0
    /\ sessions = 0
    /\ acquired = 0
    /\ tasks = NoTasks
    /\ collected = {}
    /\ max_workers = 0

\* The call ends: normally with a result, or with the exception raised.
Return(r) == /\ pc' = "done"
             /\ outcome' = "ok"
             /\ result' = r

Raise(e) == /\ pc' = "done"
            /\ outcome' = e
            /\ result' = NoResult

\* --------------------------------------------- LargeModelHandler.__init__
Construct ==
    /\ pc = "idle"
    /\ ~constructed
    /\ constructed' = TRUE
    /\ chunk_size' \in ChunkSizes
    /\ mesh' = [vertices |-> <<>>, faces |-> <<>>]
    /\ total_vertices' = 0
    /\ total_faces' = 0
    /\ loaded' = FALSE
    /\ UNCHANGED <<callVars, streamVars, bboxVars, argVars, sampVars, effectVars,
                   poolVars>>

\* ------------------------------------------------- LargeModelHandler: load
LoadModelInfo(M) ==
    /\ pc = "idle"
    /\ constructed
    /\ ~loaded
    /\ \E m \in M :
        /\ mesh' = m
        /\ total_vertices' = Len(m.vertices)
        /\ total_faces' = Len(m.faces)
    /\ loaded' = TRUE
    /\ UNCHANGED <<constructed, chunk_size, callVars, streamVars, bboxVars, argVars,
                   sampVars, effectVars, poolVars>>

\* ------------------------------------ stream_vertices / stream_faces
StreamVertices ==
    /\ pc = "idle"
    /\ constructed
    /\ pc' = "stream"
    /\ op' = "stream_vertices"
    /\ i' = 0
    /\ chunks' = <<>>
    /\ UNCHANGED <<handlerVars, outcome, result, bboxVars, argVars, sampVars,
                   effectVars, poolVars>>

StreamFaces ==
    /\ pc = "idle"
    /\ constructed
    /\ pc' = "stream"
    /\ op' = "stream_faces"
    /\ i' = 0
    /\ chunks' = <<>>
    /\ UNCHANGED <<handlerVars, outcome, result, bboxVars, argVars, sampVars,
                   effectVars, poolVars>>

\* range() refuses a zero step when the generator body first runs.
StreamRangeError ==
    /\ pc = "stream"
    /\ chunk_size = 0
    /\ Raise("ValueError")
    /\ UNCHANGED <<handlerVars, op, streamVars, bboxVars, argVars, sampVars,
                   effectVars, poolVars>>

StreamYield ==
    /\ pc = "stream"
    /\ HasChunk
    /\ chunks' = Append(chunks, NextChunk)
    /\ i' = i + chunk_size
    /\ UNCHANGED <<handlerVars, callVars, bboxVars, argVars, sampVars,
                   effectVars, poolVars>>

StreamStop ==
    /\ pc = "stream"
    /\ Exhausted
    /\ Return(NoResult)
    /\ UNCHANGED <<handlerVars, op, streamVars, bboxVars, argVars, sampVars,
                   effectVars, poolVars>>

\* ------------------------------------------------ calculate_bounding_box
CalculateBoundingBox ==
    /\ pc = "idle"
    /\ constructed
    /\ pc' = "bbox"
    /\ op' = "bbox"
    /\ i' = 0
    /\ min_coords' = InfMin
    /\ max_coords' = InfMax
    /\ UNCHANGED <<handlerVars, outcome, result, chunks, argVars, sampVars,
                   effectVars, poolVars>>

BBoxRangeError ==
    /\ pc = "bbox"
    /\ chunk_size = 0
    /\ Raise("ValueError")
    /\ UNCHANGED <<handlerVars, op, streamVars, bboxVars, argVars, sampVars,
                   effectVars, poolVars>>

BBoxChunk ==
    /\ pc = "bbox"
    /\ HasChunk
    /\ min_coords' = FoldMin(min_coords, NextChunk)
    /\ max_coords' = FoldMax(max_coords, NextChunk)
    /\ i' = i + chunk_size
    /\ UNCHANGED <<handlerVars, callVars, chunks, argVars, sampVars,
                   effectVars, poolVars>>

BBoxReturn ==
    /\ pc = "bbox"
    /\ Exhausted
    /\ Return([kind |-> "bounds", min |-> min_coords, max |-> max_coords])
    /\ UNCHANGED <<handlerVars, op, streamVars, bboxVars, argVars, sampVars,
                   effectVars, poolVars>>

\* ------------------------------------------------------ sampling helpers
\* Points requested for one face chunk (lines 116 and 159).
ChunkRequestBySize(per_face, chunk) == per_face * chunk_size

ChunkRequest(per_face, chunk) == per_face * Len(chunk)

Range(seq) == {seq[k] : k \in DOMAIN seq}

\* torch.multinomial(probs, n, replacement=True): the index vectors it may draw.
Multinomial(probs, n) == [1 .. n -> probs]

\* faces[indices]: the faces the drawn indices select.
Gather(faces, indices) == [j \in DOMAIN indices |-> faces[indices[j]]]

\* A batch of points: how many, the faces of the sub-mesh sampled, and (GPU) the
\* face each point was placed on.
Batch(kind, n, scope, src) == [kind |-> kind, n |-> n, scope |-> scope, src |-> src]

RECURSIVE SumN(_)
SumN(batches) ==
    IF batches = <<>> THEN 0 ELSE batches[1].n + SumN(Tail(batches))

\* np.vstack(samples): the stacked rows; an empty list is refused.
NpVstack(batches) == [kind |-> "points", n |-> SumN(batches)]

Stack(batches) ==
    IF batches = <<>> THEN Raise("ValueError") ELSE Return(NpVstack(batches))

\* The tensors the GPU remainder step reads (lines 178 and 184-186): the loop's
\* last bindings of face_probs and faces.
RemainderFacesWholeMesh == mesh.faces

RemainderFaces == gpu_faces

RemainderProbs == face_probs

\* The scoped GPU session of the resource manager.
GpuSessionEnter == /\ sessions' = sessions + 1
                   /\ acquired' = acquired + 1

GpuSessionExit == /\ sessions' = sessions - 1
                  /\ acquired' = acquired

GpuSessionKept == /\ sessions' = sessions
                  /\ acquired' = acquired

\* ------------------------------------ LargeModelHandler.sample_points
SamplePoints ==
    /\ pc = "idle"
    /\ constructed
    /\ \E n \in 0 .. MaxSamples, g \in BOOLEAN, c \in BOOLEAN :
        /\ num_samples' = n
        /\ use_gpu' = g
        /\ cuda_available' = c
        /\ \/ /\ ~g
              /\ pc' = "cpu_entry"
              /\ cpu_calls' = cpu_calls + 1
              /\ UNCHANGED <<gpu_calls, warnings>>
           \/ /\ g /\ c
              /\ pc' = "gpu_entry"
              /\ gpu_calls' = gpu_calls + 1
              /\ UNCHANGED <<cpu_calls, warnings>>
           \/ /\ g /\ ~c
              /\ warnings' = warnings + 1
              /\ pc' = "cpu_entry"
              /\ cpu_calls' = cpu_calls + 1
              /\ UNCHANGED gpu_calls
    /\ op' = "sample_points"
    /\ UNCHANGED <<handlerVars, outcome, result, streamVars, bboxVars, num_threads,
                   large_model, sampVars, sample_calls, allocs, sessions, acquired,
                   poolVars>>

\* ------------------------------------------------- _sample_points_cpu
CpuStart ==
    /\ pc = "cpu_entry"
    /\ IF total_faces = 0
       THEN /\ Raise("ZeroDivisionError")
            /\ UNCHANGED <<samples_per_face, remaining_samples, samples, i>>
       ELSE /\ samples' = <<>>
            /\ samples_per_face' = FloorDiv(num_samples, total_faces)
            /\ remaining_samples' = Mod(num_samples, total_faces)
            /\ i' = 0
            /\ pc' = "cpu_loop"
            /\ UNCHANGED <<outcome, result>>
    /\ UNCHANGED <<handlerVars, op, chunks, bboxVars, argVars, gpu_faces, face_probs,
                   effectVars, poolVars>>

CpuRangeError ==
    /\ pc = "cpu_loop"
    /\ chunk_size = 0
    /\ Raise("ValueError")
    /\ UNCHANGED <<handlerVars, op, streamVars, bboxVars, argVars, sampVars,
                   effectVars, poolVars>>

CpuChunk ==
    /\ pc = "cpu_loop"
    /\ HasChunk
    /\ sample_calls' = sample_calls + 1
    /\ samples' = Append(samples,
            Batch("chunk", ChunkRequest(samples_per_face, NextChunk),
                  Range(NextChunk), <<>>))
    /\ i' = i + chunk_size
    /\ UNCHANGED <<handlerVars, callVars, chunks, bboxVars, argVars, samples_per_face,
                   remaining_samples, gpu_faces, face_probs, warnings, cpu_calls,
                   gpu_calls, allocs, sessions, acquired, poolVars>>

\* sample_surface_even raises, in a chunk iteration or in the remainder step.
CpuFail ==
    /\ pc = "cpu_loop"
    /\ HasChunk \/ (Exhausted /\ remaining_samples > 0)
    /\ sample_calls' = sample_calls + 1
    /\ Raise("SamplingError")
    /\ UNCHANGED <<handlerVars, op, streamVars, bboxVars, argVars, sampVars, warnings,
                   cpu_calls, gpu_calls, allocs, sessions, acquired, poolVars>>

\* Lines 120-127: the remainder over the whole mesh, then np.vstack.
CpuFinish ==
    /\ pc = "cpu_loop"
    /\ Exhausted
    /\ IF remaining_samples > 0
       THEN /\ sample_calls' = sample_calls + 1
            /\ samples' = Append(samples,
                    Batch("rem", remaining_samples, Range(mesh.faces), <<>>))
       ELSE UNCHANGED <<sample_calls, samples>>
    /\ Stack(samples')
    /\ UNCHANGED <<handlerVars, op, streamVars, bboxVars, argVars, samples_per_face,
                   remaining_samples, gpu_faces, face_probs, warnings, cpu_calls,
                   gpu_calls, allocs, sessions, acquired, poolVars>>

\* ------------------------------------------------- _sample_points_gpu
GpuStart ==
    /\ pc = "gpu_entry"
    /\ IF total_faces = 0
       THEN /\ Raise("ZeroDivisionError")
            /\ UNCHANGED <<samples_per_face, remaining_samples, samples, sessions,
                           acquired>>
       ELSE /\ samples' = <<>>
            /\ samples_per_face' = FloorDiv(num_samples, total_faces)
            /\ remaining_samples' = Mod(num_samples, total_faces)
            /\ GpuSessionEnter
            /\ pc' = "gpu_upload"
            /\ UNCHANGED <<outcome, result>>
    /\ UNCHANGED <<handlerVars, op, streamVars, bboxVars, argVars, gpu_faces,
                   face_probs, warnings, cpu_calls, gpu_calls, sample_calls, allocs,
                   poolVars>>

\* Lines 140-142: the vertex buffer goes to the device once.
GpuUpload ==
    /\ pc = "gpu_upload"
    /\ allocs' = allocs + 1
    /\ i' = 0
    /\ gpu_faces' = <<>>
    /\ face_probs' = {}
    /\ pc' = "gpu_loop"
    /\ UNCHANGED <<handlerVars, op, outcome, result, chunks, bboxVars, argVars,
                   samples_per_face, remaining_samples, samples, warnings, cpu_calls,
                   gpu_calls, sample_calls, sessions, acquired, poolVars>>

GpuRangeError ==
    /\ pc = "gpu_loop"
    /\ chunk_size = 0
    /\ GpuSessionExit
    /\ Raise("ValueError")
    /\ UNCHANGED <<handlerVars, op, streamVars, bboxVars, argVars, sampVars, warnings,
                   cpu_calls, gpu_calls, sample_calls, allocs, poolVars>>

\* Lines 143-172: one face chunk.
GpuChunk ==
    /\ pc = "gpu_loop"
    /\ HasChunk
    /\ allocs' = allocs + 1
    /\ sample_calls' = sample_calls + 1
    /\ gpu_faces' = NextChunk
    /\ face_probs' = DOMAIN NextChunk
    /\ \E face_indices \in
            Multinomial(face_probs', ChunkRequest(samples_per_face, NextChunk)) :
        samples' = Append(samples,
            Batch("chunk", Len(face_indices), Range(gpu_faces'),
                  Gather(gpu_faces', face_indices)))
    /\ i' = i + chunk_size
    /\ UNCHANGED <<handlerVars, callVars, chunks, bboxVars, argVars, samples_per_face,
                   remaining_samples, warnings, cpu_calls, gpu_calls, sessions,
                   acquired, poolVars>>

\* Lines 174-188 with a remainder to draw.
GpuRemainder ==
    /\ pc = "gpu_loop"
    /\ Exhausted
    /\ remaining_samples > 0
    /\ IF RemainderProbs = {}
       THEN \* no chunk was processed: face_probs is unbound
            /\ GpuSessionExit
            /\ Raise("UnboundLocalError")
            /\ UNCHANGED <<samples, sample_calls>>
       ELSE /\ sample_calls' = sample_calls + 1
            /\ \E extra_indices \in Multinomial(RemainderProbs, remaining_samples) :
                samples' = Append(samples,
                    Batch("rem", Len(extra_indices), Range(RemainderFaces),
                          Gather(RemainderFaces, extra_indices)))
            /\ pc' = "gpu_tail"
            /\ GpuSessionKept
            /\ UNCHANGED <<outcome, result>>
    /\ UNCHANGED <<handlerVars, op, streamVars, bboxVars, argVars, samples_per_face,
                   remaining_samples, gpu_faces, face_probs, warnings, cpu_calls,
                   gpu_calls, allocs, poolVars>>

\* A device call raises inside the session: the upload, a chunk iteration or the
\* remainder step.
GpuFailLeak ==
    /\ \/ pc = "gpu_upload"
       \/ pc = "gpu_loop" /\ HasChunk
       \/ pc = "gpu_loop" /\ Exhausted /\ remaining_samples > 0
    /\ GpuSessionKept
    /\ Raise("RuntimeError")
    /\ UNCHANGED <<handlerVars, op, streamVars, bboxVars, argVars, sampVars, warnings,
                   cpu_calls, gpu_calls, sample_calls, allocs, poolVars>>

GpuFail ==
    /\ \/ pc = "gpu_upload"
       \/ pc = "gpu_loop" /\ HasChunk
       \/ pc = "gpu_loop" /\ Exhausted /\ remaining_samples > 0
    /\ GpuSessionExit
    /\ Raise("RuntimeError")
    /\ UNCHANGED <<handlerVars, op, streamVars, bboxVars, argVars, sampVars, warnings,
                   cpu_calls, gpu_calls, sample_calls, allocs, poolVars>>

\* The session scope ends and line 190 stacks the batches.
GpuReturn ==
    /\ \/ pc = "gpu_loop" /\ Exhausted /\ remaining_samples = 0
       \/ pc = "gpu_tail"
    /\ GpuSessionExit
    /\ Stack(samples)
    /\ UNCHANGED <<handlerVars, op, streamVars, bboxVars, argVars, sampVars, warnings,
                   cpu_calls, gpu_calls, sample_calls, allocs, poolVars>>

\* --------------------------------------------- PointSampler.sample_points
PSamplePoints ==
    /\ pc = "idle"
    /\ ~constructed
    /\ mesh' \in SampleMeshes
    /\ \E n \in 0 .. MaxSamples, g \in BOOLEAN, c \in BOOLEAN, t \in 0 .. MaxThreads :
        /\ num_samples' = n
        /\ use_gpu' = g
        /\ cuda_available' = c
        /\ num_threads' = t
        /\ \/ /\ g /\ c
              /\ pc' = "ps_gpu"
              /\ gpu_calls' = gpu_calls + 1
              /\ UNCHANGED cpu_calls
           \/ /\ ~(g /\ c)
              /\ pc' = "ps_cpu"
              /\ cpu_calls' = cpu_calls + 1
              /\ UNCHANGED gpu_calls
    /\ op' = "ps_sample_points"
    /\ UNCHANGED <<constructed, chunk_size, total_vertices, total_faces, loaded, outcome, result, streamVars, bboxVars, large_model,
                   sampVars, warnings, sample_calls, allocs, sessions, acquired,
                   poolVars>>

\* ------------------------------------------- PointSampler._sample_points_on_gpu
PGpuSample ==
    /\ pc = "ps_gpu"
    /\ allocs' = allocs + 2
    /\ sample_calls' = sample_calls + 1
    /\ \E face_indices \in Multinomial(DOMAIN mesh.faces, num_samples) :
        /\ samples' = <<Batch("all", Len(face_indices), Range(mesh.faces),
                              Gather(mesh.faces, face_indices))>>
        /\ Return(NpVstack(samples'))
    /\ UNCHANGED <<handlerVars, op, streamVars, bboxVars, argVars, samples_per_face,
                   remaining_samples, gpu_faces, face_probs, warnings, cpu_calls,
                   gpu_calls, sessions, acquired, poolVars>>

PGpuFail ==
    /\ pc = "ps_gpu"
    /\ allocs' = allocs + 2
    /\ sample_calls' = sample_calls + 1
    /\ Raise("RuntimeError")
    /\ UNCHANGED <<handlerVars, op, streamVars, bboxVars, argVars, sampVars, warnings,
                   cpu_calls, gpu_calls, sessions, acquired, poolVars>>

\* ------------------------------------------- PointSampler._sample_points_on_cpu
Task(req) == [req |-> req, st |-> "pending"]

\* The futures of lines 67-69: one per thread, and one for the remainder.
Futures(n, threads) ==
    LET per == FloorDiv(n, threads)
        rest == Mod(n, threads)
    IN  [k \in 1 .. threads |-> Task(per)] \o
        (IF rest > 0 THEN <<Task(rest)>> ELSE <<>>)

Running == {t \in DOMAIN tasks : tasks[t].st = "running"}

Finished == {t \in DOMAIN tasks : tasks[t].st \in {"done", "failed"}}

\* Lines 60-69: the pool is created and every unit of work is submitted to it.
PCpuSubmit ==
    /\ pc = "ps_cpu"
    /\ IF num_threads = 0
       THEN /\ Raise("ZeroDivisionError")
            /\ UNCHANGED poolVars
       ELSE /\ max_workers' = num_threads
            /\ tasks' = Futures(num_samples, num_threads)
            /\ collected' = {}
            /\ pc' = "ps_wait"
            /\ UNCHANGED <<outcome, result>>
    /\ UNCHANGED <<handlerVars, op, streamVars, bboxVars, argVars, sampVars,
                   effectVars>>

\* A worker thread of the pool takes a queued task: at most max_workers run.
WorkerStart(t) ==
    /\ pc \in {"ps_wait", "ps_unwind"}
    /\ tasks[t].st = "pending"
    /\ Cardinality(Running) < max_workers
    /\ tasks' = [tasks EXCEPT ![t].st = "running"]
    /\ UNCHANGED <<handlerVars, callVars, streamVars, bboxVars, argVars, sampVars,
                   effectVars, collected, max_workers>>

\* sample_chunk returns mesh.sample(chunk_size), or raises.
WorkerDone(t) ==
    /\ pc \in {"ps_wait", "ps_unwind"}
    /\ tasks[t].st = "running"
    /\ tasks' = [tasks EXCEPT ![t].st = "done"]
    /\ UNCHANGED <<handlerVars, callVars, streamVars, bboxVars, argVars, sampVars,
                   effectVars, collected, max_workers>>

WorkerRaise(t) ==
    /\ pc \in {"ps_wait", "ps_unwind"}
    /\ tasks[t].st = "running"
    /\ tasks' = [tasks EXCEPT ![t].st = "failed"]
    /\ UNCHANGED <<handlerVars, callVars, streamVars, bboxVars, argVars, sampVars,
                   effectVars, collected, max_workers>>

\* Line 71: as_completed hands over a completed future and result() returns.
PCollect(t) ==
    /\ pc = "ps_wait"
    /\ t \notin collected
    /\ tasks[t].st = "done"
    /\ collected' = collected \cup {t}
    /\ samples' = Append(samples, Batch("task", tasks[t].req, Range(mesh.faces), <<>>))
    /\ UNCHANGED <<handlerVars, callVars, streamVars, bboxVars, argVars,
                   samples_per_face, remaining_samples, gpu_faces, face_probs,
                   effectVars, tasks, max_workers>>

\* Line 71: result() re-raises the exception of a failed future; the with block
\* starts to unwind.
PCollectRaise(t) ==
    /\ pc = "ps_wait"
    /\ t \notin collected
    /\ tasks[t].st = "failed"
    /\ pc' = "ps_unwind"
    /\ UNCHANGED <<handlerVars, op, outcome, result, streamVars, bboxVars, argVars,
                   sampVars, effectVars, poolVars>>

\* The executor's __exit__ is shutdown(wait=True): the exception leaves the call
\* once no task is queued or running.
PUnwindNoWait ==
    /\ pc = "ps_unwind"
    /\ Raise("WorkerFailure")
    /\ UNCHANGED <<handlerVars, op, streamVars, bboxVars, argVars, sampVars,
                   effectVars, poolVars>>

PUnwind ==
    /\ pc = "ps_unwind"
    /\ Finished = DOMAIN tasks
    /\ Raise("WorkerFailure")
    /\ UNCHANGED <<handlerVars, op, streamVars, bboxVars, argVars, sampVars,
                   effectVars, poolVars>>

\* Lines 71-74: every future was collected; np.vstack and return.
PReturn ==
    /\ pc = "ps_wait"
    /\ collected = DOMAIN tasks
    /\ Return(NpVstack(samples))
    /\ UNCHANGED <<handlerVars, op, streamVars, bboxVars, argVars, sampVars,
                   effectVars, poolVars>>

\* ---------------------------------------------------------------- main.py
ValidateArguments(max_resolution, samples_arg, threads_arg, chunk_arg) ==
    /\ ~(max_resolution <= 0)
    /\ ~(samples_arg <= 0)
    /\ ~(threads_arg < 1)
    /\ ~(chunk_arg <= 0)

\* Lines 59-62: the arguments are validated, then the outer GPU session opens.
MainStart ==
    /\ pc = "idle"
    /\ ~constructed
    /\ \E r \in 0 .. 1, n \in 0 .. MaxSamples, t \in 0 .. MaxThreads,
          c \in ChunkSizes, g \in BOOLEAN, l \in BOOLEAN :
        /\ chunk_size' = c
        /\ num_samples' = n
        /\ num_threads' = t
        /\ use_gpu' = g
        /\ large_model' = l
        /\ IF ValidateArguments(r, n, t, c)
           THEN /\ GpuSessionEnter
                /\ pc' = "main"
                /\ UNCHANGED <<outcome, result>>
           ELSE /\ Raise("ValueError")
                /\ GpuSessionKept
    /\ op' = "main"
    /\ UNCHANGED <<constructed, mesh, total_vertices, total_faces, loaded, streamVars, bboxVars, cuda_available, sampVars,
                   warnings, cpu_calls, gpu_calls, sample_calls, allocs, poolVars>>

\* Lines 64-65: the handler is built with args.chunk_size and loads the model.
MainLoad ==
    /\ pc = "main"
    /\ large_model
    /\ ~loaded
    /\ constructed' = TRUE
    /\ \E m \in SampleMeshes :
        /\ mesh' = m
        /\ total_vertices' = Len(m.vertices)
        /\ total_faces' = Len(m.faces)
    /\ loaded' = TRUE
    /\ UNCHANGED <<chunk_size, callVars, streamVars, bboxVars, argVars, sampVars,
                   effectVars, poolVars>>

\* Lines 66-72: after the bounding box, main looks up handler.sample_points_gpu
\* or handler.sample_points_cpu; LargeModelHandler defines neither, so the
\* lookup raises and the session scope unwinds.
MainLargeModel ==
    /\ pc = "main"
    /\ large_model
    /\ loaded
    /\ GpuSessionExit
    /\ Raise("AttributeError")
    /\ UNCHANGED <<handlerVars, op, streamVars, bboxVars, argVars, sampVars, warnings,
                   cpu_calls, gpu_calls, sample_calls, allocs, poolVars>>

\* Lines 80-91: the collaborators outside this model run and the scope ends.
MainMesh ==
    /\ pc = "main"
    /\ ~large_model
    /\ GpuSessionExit
    /\ \/ Return(NoResult)
       \/ Raise("Error")
    /\ UNCHANGED <<handlerVars, op, streamVars, bboxVars, argVars, sampVars, warnings,
                   cpu_calls, gpu_calls, sample_calls, allocs, poolVars>>

\* ------------------------------------------------------------------- Next
Next ==
    \/ Construct
    \/ LoadModelInfo(SampleMeshes)
    \/ StreamVertices
    \/ StreamFaces
    \/ StreamRangeError
    \/ StreamYield
    \/ StreamStop
    \/ CalculateBoundingBox
    \/ BBoxRangeError
    \/ BBoxChunk
    \/ BBoxReturn
    \/ SamplePoints
    \/ CpuStart
    \/ CpuRangeError
    \/ CpuChunk
    \/ CpuFail
    \/ CpuFinish
    \/ GpuStart
    \/ GpuUpload
    \/ GpuRangeError
    \/ GpuChunk
    \/ GpuRemainder
    \/ GpuFail
    \/ GpuReturn
    \/ PSamplePoints
    \/ PGpuSample
    \/ PGpuFail
    \/ PCpuSubmit
    \/ \E t \in DOMAIN tasks : WorkerStart(t)
    \/ \E t \in DOMAIN tasks : WorkerDone(t)
    \/ \E t \in DOMAIN tasks : WorkerRaise(t)
    \/ \E t \in DOMAIN tasks : PCollect(t)
    \/ \E t \in DOMAIN tasks : PCollectRaise(t)
    \/ PUnwind
    \/ PReturn
    \/ MainStart
    \/ MainLoad
    \/ MainLargeModel
    \/ MainMesh

Spec == Init /\ [][Next]_vars

\* The bounding box over every vertex sequence.
NextBounds ==
    \/ Construct
    \/ LoadModelInfo(BoundsMeshes)
    \/ CalculateBoundingBox
    \/ BBoxRangeError
    \/ BBoxChunk
    \/ BBoxReturn

SpecBounds == Init /\ [][NextBounds]_vars

\* ================================================================ claims
CeilDiv(n, d) == (n + d - 1) \div d

RECURSIVE Flatten(_)
Flatten(cs) == IF cs = <<>> THEN <<>> ELSE cs[1] \o Flatten(Tail(cs))

IsPrefix(a, b) == Len(a) <= Len(b) /\ a = SubSeq(b, 1, Len(a))

Streaming == op \in {"stream_vertices", "stream_faces"}

HandlerSampling == op = "sample_points"

PoolSampling == op = "ps_sample_points"

OnCpu == cpu_calls = 1 /\ gpu_calls = 0

OnGpu == gpu_calls = 1 /\ cpu_calls = 0

\* Face ids of the k-th face chunk (1-based), from the chunk arithmetic alone.
ChunkFaceIds(k) ==
    {f \in 0 .. total_faces - 1 : (k - 1) * chunk_size <= f /\ f < k * chunk_size}

LastChunkNo == CeilDiv(total_faces, chunk_size)

C2_StreamCoversInOrder ==
    (Streaming /\ chunk_size > 0)
    => /\ IsPrefix(Flatten(chunks), StreamSeq)
       /\ \A k \in DOMAIN chunks :
            /\ Len(chunks[k]) >= 1
            /\ Len(chunks[k]) <= chunk_size
            /\ k < Len(chunks) => Len(chunks[k]) = chunk_size
       /\ pc = "done" =>
            /\ outcome = "ok"
            /\ Len(chunks) = CeilDiv(Len(StreamSeq), chunk_size)
            /\ Flatten(chunks) = StreamSeq

C2_Witness ==
    /\ Streaming
    /\ pc = "done"
    /\ chunk_size > 1
    /\ Len(chunks) >= 2
    /\ Len(chunks[Len(chunks)]) < chunk_size
    /\ Flatten(chunks) = StreamSeq

\* C3: streaming (here: a loaded, non-empty sequence) with chunk_size <= 0
\* fails with an error: it never yields a chunk and never completes normally
\* as an empty stream.
C3_NonPositiveChunkFails ==
    (Streaming /\ loaded /\ StreamTotal >= 1 /\ chunk_size <= 0)
    => /\ chunks = <<>>
       /\ pc = "done" => outcome = "ValueError"

\* C4: with a positive chunk_size, on a mesh with zero vertices
\* calculate_bounding_box ends in an error (it never returns the initial
\* infinities), and on a mesh with zero faces the CPU and GPU samplers end in
\* an error.
C4_EmptyMeshIsRejected ==
    (/\ pc = "done"
     /\ loaded
     /\ chunk_size > 0
     /\ \/ op = "bbox" /\ total_vertices = 0
        \/ HandlerSampling /\ total_faces = 0)
    => /\ outcome # "ok"
       /\ result = NoResult

\* C5: a sampling entry point invokes exactly one sampler per call, the GPU
\* sampler exactly when use_gpu is requested and a device is available, and a
\* warning is emitted exactly when GPU was requested and no device is
\* available.
C5_OneSamplerWarnOnFallback ==
    ((HandlerSampling \/ PoolSampling) /\ pc # "idle")
    => /\ cpu_calls + gpu_calls = 1
       /\ gpu_calls = 1 <=> (use_gpu /\ cuda_available)
       /\ warnings = 1 <=> (use_gpu /\ ~cuda_available)
       /\ warnings <= 1

\* C6: while the handler's GPU sampler runs inside its session scope exactly
\* one session is held and it was acquired once; when the call has ended, by a
\* return or by an error of the upload, of a chunk iteration or of the
\* remainder step, no session is held and none was acquired a second time.
InGpuScope == pc \in {"gpu_upload", "gpu_loop", "gpu_tail"}

C6_OneSessionAlwaysReleased ==
    /\ InGpuScope => (sessions = 1 /\ acquired = 1)
    /\ (HandlerSampling /\ pc = "done") =>
            /\ sessions = 0
            /\ acquired = IF OnGpu /\ total_faces > 0 THEN 1 ELSE 0

C6_Witness ==
    /\ HandlerSampling
    /\ OnGpu
    /\ pc = "done"
    /\ outcome = "RuntimeError"
    /\ Len(samples) >= 1
    /\ acquired = 1
    /\ sessions = 0

\* C7: with num_samples = 0 on a mesh with at least one face (and a valid
\* chunk_size and thread count) sampling returns an empty sample set without
\* an error, and does no work: no sampling call, no device allocation and no
\* task submitted to the pool.
C7_ZeroSamplesNoWork ==
    (/\ num_samples = 0
     /\ Len(mesh.faces) >= 1
     /\ \/ HandlerSampling /\ chunk_size > 0
        \/ PoolSampling /\ num_threads >= 1)
    => /\ sample_calls = 0
       /\ allocs = 0
       /\ tasks = NoTasks
       /\ pc = "done" =>
            /\ outcome = "ok"
            /\ result = [kind |-> "points", n |-> 0]

\* What holds of the pool of PointSampler._sample_points_on_cpu.
PoolDiscipline ==
    /\ sample_calls = 0
    /\ pc \in {"ps_wait", "ps_unwind"} => max_workers = num_threads
    /\ Cardinality(Running) <= max_workers
    /\ (pc = "done" /\ tasks # NoTasks) =>
            /\ Finished = DOMAIN tasks
            /\ IF \E t \in DOMAIN tasks : tasks[t].st = "failed"
               THEN outcome = "WorkerFailure" /\ result = NoResult
               ELSE /\ outcome = "ok"
                    /\ collected = DOMAIN tasks
                    /\ result = [kind |-> "points", n |-> num_samples]

AxisValues(a) == {mesh.vertices[k][a] : k \in DOMAIN mesh.vertices}

TrueMin == [a \in Axes |-> Fin(CHOOSE m \in AxisValues(a) : \A v \in AxisValues(a) : m <= v)]

TrueMax == [a \in Axes |-> Fin(CHOOSE m \in AxisValues(a) : \A v \in AxisValues(a) : m >= v)]

C9_BoundsAreExtrema ==
    (op = "bbox" /\ pc = "done" /\ chunk_size > 0 /\ total_vertices > 0)
    => /\ outcome = "ok"
       /\ result = [kind |-> "bounds", min |-> TrueMin, max |-> TrueMax]

C9_Witness ==
    /\ op = "bbox"
    /\ pc = "done"
    /\ chunk_size = 1
    /\ total_vertices >= 2
    /\ result = [kind |-> "bounds", min |-> TrueMin, max |-> TrueMax]
    /\ NpMin(<<mesh.vertices[total_vertices]>>) # TrueMin

\* C10: in the handler's GPU sampler with a positive chunk_size, the points of
\* the k-th chunk batch lie on faces of chunk k only, and the remainder batch
\* follows the last chunk batch and its points lie on faces of the last
\* chunk only.
C10_GpuBatchesStayInChunk ==
    (HandlerSampling /\ OnGpu /\ chunk_size > 0)
    => \A b \in DOMAIN samples :
        /\ Len(samples[b].src) = samples[b].n
        /\ IF samples[b].kind = "chunk"
           THEN Range(samples[b].src) \subseteq ChunkFaceIds(b)
           ELSE /\ samples[b].n = num_samples % total_faces
                /\ b = LastChunkNo + 1
                /\ Range(samples[b].src) \subseteq ChunkFaceIds(LastChunkNo)

C10_Witness ==
    /\ HandlerSampling
    /\ OnGpu
    /\ pc = "done"
    /\ outcome = "ok"
    /\ chunk_size > 0
    /\ LastChunkNo >= 2
    /\ samples[Len(samples)].kind = "rem"
    /\ Range(samples[Len(samples)].src) \subseteq ChunkFaceIds(LastChunkNo)

====
